---- MODULE Spec2Model ----
(***************************************************************************)
(* Meeting summarizer (src/main.py): an in-memory job store, the submit    *)
(* and status endpoints, and the background routine _run_agents that       *)
(* pipes a transcript through three Runner.run calls (Transcriber,         *)
(* Clarifier, Summarizer) on one cooperative event loop.                   *)
(*                                                                         *)
(* One action is one uninterrupted run of code between two suspension      *)
(* points (await) of the event loop.  Runner.run is an external            *)
(* collaborator: its result (an output, or a raised error) is an input of  *)
(* the model, drawn from small sets.                                       *)
(***************************************************************************)
EXTENDS Naturals, Sequences, FiniteSets, TLC

\* ---------------------------------------------------------------- bounds
\* Number of distinct identifiers uuid4 can hand out in the model.
NumIds == 2

JobIds == 1..NumIds

\* ---------------------------------------------------------------- values
\* Python's None, as a value distinct from every text the model uses.
None == "<None>"

\* Transcripts a client may post (SummarizeRequest.transcript).
Transcripts == {"raw"}

\* Request bodies the validation of SummarizeRequest refuses: one without
\* the field `transcript`, and one whose `transcript` is null.
MalformedBodies == { [text |-> "raw"], [transcript |-> None] }

\* The body has a field `transcript` holding a text.
Valid(body) == "transcript" \in DOMAIN body /\ body.transcript # None

\* final_output values Runner.run may produce for each agent.
TranscriberOutputs == {"", "clean"}
ClarifierOutputs == {None, "", "clarified"}
SummarizerOutputs == {"summary"}

\* Errors Runner.run may raise: ordinary exceptions with zero or one
\* argument, and asyncio.CancelledError, which derives from BaseException
\* and not from Exception.
Errors ==
    { [cls |-> "Exception", args |-> <<>>],
      [cls |-> "Exception", args |-> <<"boom">>],
      [cls |-> "CancelledError", args |-> <<>>] }

\* isinstance(e, Exception): what the clause `except Exception` catches.
IsException(e) == e.cls = "Exception"

\* str(e) of an exception: "" with no argument, the argument's text with one.
Str(e) == IF Len(e.args) = 0 THEN "" ELSE e.args[1]

\* Python truthiness of a text-or-None value.
Falsy(x) == x = None \/ x = ""

\* Python `a or b`: a when a is truthy, b otherwise.
Or(a, b) == IF Falsy(a) THEN b ELSE a

\* The three agent definitions, by name, in pipeline order.
Agents == <<"Transcriber", "Clarifier", "Summarizer">>

\* ----------------------------------------------------------------- state
VARIABLES
    jobs,        \* the job store: job id -> record (a dict with "status", maybe "error")
    issued,      \* job id -> number of submit responses that returned it
    resp,        \* the latest HTTP response produced by an endpoint
    pc,          \* job id -> position of its _run_agents task
    transcript,  \* job id -> argument `transcript` of its task
    clean_text,  \* job id -> local `clean_text` of its task
    clarified,   \* job id -> local `clarified` of its task
    calls        \* job id -> log of the task's Runner.run calls

vars == <<jobs, issued, resp, pc, transcript, clean_text, clarified, calls>>

\* Outcome of a Runner.run call that has not returned yet.
Pending == [kind |-> "pending", out |-> None, cls |-> "", args |-> <<>>]

\* Outcome of a Runner.run call that returned final_output = out.
Returned(out) == [kind |-> "ok", out |-> out, cls |-> "", args |-> <<>>]

\* Outcome of a Runner.run call that raised e.
Raised(e) == [kind |-> "raise", out |-> None, cls |-> e.cls, args |-> e.args]

\* A call Runner.run(agent, input) entering the log.
Call(agent, input) == [agent |-> agent, input |-> input, outcome |-> Pending]

\* The log with the outcome of its latest call filled in.
Settle(log, outcome) == [log EXCEPT ![Len(log)].outcome = outcome]

\* No response has been produced yet.
NoResp == [op |-> "none"]

Init ==
    /\ jobs = [j \in {} |-> [status |-> "started"]]
    /\ issued = [j \in JobIds |-> 0]
    /\ resp = NoResp
    /\ pc = [j \in JobIds |-> "none"]
    /\ transcript = [j \in JobIds |-> None]
    /\ clean_text = [j \in JobIds |-> None]
    /\ clarified = [j \in JobIds |-> None]
    /\ calls = [j \in JobIds |-> <<>>]

\* -------------------------------------------------------------- endpoints
\* str(uuid.uuid4()): an identifier that no earlier call has produced.
uuid4(id) == id \in JobIds /\ issued[id] = 0 /\ id \notin DOMAIN jobs

\* Variant of create: the record is not written by the handler.
create_deferred(id) == jobs

\* jobs[job_id] = {"status": "started"}
create(id) == [j \in DOMAIN jobs \cup {id} |->
                  IF j = id THEN [status |-> "started"] ELSE jobs[j]]

\* Variant of summarize_job: the handler runs the routine itself up to its
\* first suspension (await _run_agents(...)) before it answers.
summarize_job_awaiting(id, text) ==
    /\ uuid4(id)
    /\ jobs' = create(id)
    /\ pc' = [pc EXCEPT ![id] = "await1"]
    /\ transcript' = [transcript EXCEPT ![id] = text]
    /\ calls' = [calls EXCEPT ![id] = Append(@, Call(Agents[1], text))]
    /\ issued' = [issued EXCEPT ![id] = @ + 1]
    /\ resp' = [op |-> "summarize", code |-> 200,
                body |-> [job_id |-> id, status |-> "queued"]]
    /\ UNCHANGED <<clean_text, clarified>>

\* POST /summarize: no await inside, so the handler is one step.
summarize_job(id, text) ==
    /\ uuid4(id)
    /\ jobs' = create(id)
    /\ pc' = [pc EXCEPT ![id] = "created"]
    /\ transcript' = [transcript EXCEPT ![id] = text]
    /\ issued' = [issued EXCEPT ![id] = @ + 1]
    /\ resp' = [op |-> "summarize", code |-> 200,
                body |-> [job_id |-> id, status |-> "queued"]]
    /\ UNCHANGED <<clean_text, clarified, calls>>

\* Variant of summarize_rejected: the body is checked inside the handler,
\* after the record is written and the task created.
summarize_rejected_late(body) ==
    /\ ~Valid(body)
    /\ \E id \in JobIds :
          /\ uuid4(id)
          /\ jobs' = create(id)
          /\ pc' = [pc EXCEPT ![id] = "created"]
    /\ resp' = [op |-> "summarize", code |-> 422,
                body |-> [detail |-> "validation error"]]
    /\ UNCHANGED <<issued, transcript, clean_text, clarified, calls>>

\* POST /summarize with a body that is no SummarizeRequest: the request is
\* answered 422 and summarize_job is not called.
summarize_rejected(body) ==
    /\ ~Valid(body)
    /\ resp' = [op |-> "summarize", code |-> 422,
                body |-> [detail |-> "validation error"]]
    /\ UNCHANGED <<jobs, issued, pc, transcript, clean_text, clarified, calls>>

\* Variant of get_job: jobs.setdefault(job_id, {}) in place of the 404.
get_job_default(id) ==
    /\ jobs' = [j \in DOMAIN jobs \cup {id} |->
                   IF j \in DOMAIN jobs THEN jobs[j] ELSE <<>>]
    /\ resp' = [op |-> "get", id |-> id, code |-> 200, body |-> jobs'[id]]
    /\ UNCHANGED <<issued, pc, transcript, clean_text, clarified, calls>>

\* GET /jobs/{job_id}
get_job(id) ==
    /\ resp' = IF id \notin DOMAIN jobs
               THEN [op |-> "get", id |-> id, code |-> 404,
                     body |-> [detail |-> "job not found"]]
               ELSE [op |-> "get", id |-> id, code |-> 200, body |-> jobs[id]]
    /\ UNCHANGED <<jobs, issued, pc, transcript, clean_text, clarified, calls>>

\* ------------------------------------------------------------ _run_agents
\* Variant of run_start: the calls are made under a deadline
\* (asyncio.wait_for); when it passes, the awaiting job is marked failed.
run_start_deadline(j) ==
    \/ /\ pc[j] = "created"
       /\ calls' = [calls EXCEPT ![j] = Append(@, Call(Agents[1], transcript[j]))]
       /\ pc' = [pc EXCEPT ![j] = "await1"]
       /\ UNCHANGED <<jobs, issued, resp, transcript, clean_text, clarified>>
    \/ /\ pc[j] \in {"await1", "await2", "await3"}
       /\ jobs' = [jobs EXCEPT ![j] = [status |-> "failed", error |-> ""]]
       /\ pc' = [pc EXCEPT ![j] = "done"]
       /\ UNCHANGED <<issued, resp, transcript, clean_text, clarified, calls>>

\* Variant of run_start: the Transcriber and the Clarifier are started
\* together on the raw transcript (asyncio.gather) instead of in sequence.
run_start_gathering(j) ==
    /\ pc[j] = "created"
    /\ calls' = [calls EXCEPT ![j] =
                    Append(Append(@, Call(Agents[1], transcript[j])),
                           Call(Agents[2], transcript[j]))]
    /\ pc' = [pc EXCEPT ![j] = "await2"]
    /\ UNCHANGED <<jobs, issued, resp, transcript, clean_text, clarified>>

\* The task's first step: up to the suspension in the Transcriber call.
run_start(j) ==
    /\ pc[j] = "created"
    /\ calls' = [calls EXCEPT ![j] = Append(@, Call(Agents[1], transcript[j]))]
    /\ pc' = [pc EXCEPT ![j] = "await1"]
    /\ UNCHANGED <<jobs, issued, resp, transcript, clean_text, clarified>>

\* The Transcriber call returns: clean_text is set and the Clarifier is called.
transcriber_returns(j, out) ==
    /\ pc[j] = "await1"
    /\ clean_text' = [clean_text EXCEPT ![j] = out]
    /\ calls' = [calls EXCEPT ![j] =
                    Append(Settle(@, Returned(out)), Call(Agents[2], out))]
    /\ pc' = [pc EXCEPT ![j] = "await2"]
    /\ UNCHANGED <<jobs, issued, resp, transcript, clarified>>

\* Variant of fallback: the Clarifier's output is taken as it is.
fallback_dropped(out, clean) == out

\* result2.final_output or clean_text
fallback(out, clean) == Or(out, clean)

\* Variant of clarifier_returns: the record is marked completed before the
\* Summarizer call instead of after it.
clarifier_returns_marking(j, out) ==
    /\ pc[j] = "await2"
    /\ clarified' = [clarified EXCEPT ![j] = fallback(out, clean_text[j])]
    /\ calls' = [calls EXCEPT ![j] =
                    Append(Settle(@, Returned(out)),
                           Call(Agents[3], fallback(out, clean_text[j])))]
    /\ jobs' = [jobs EXCEPT ![j] = [status |-> "completed"]]
    /\ pc' = [pc EXCEPT ![j] = "await3"]
    /\ UNCHANGED <<issued, resp, transcript, clean_text>>

\* The Clarifier call returns: clarified is set and the Summarizer is called.
clarifier_returns(j, out) ==
    /\ pc[j] = "await2"
    /\ clarified' = [clarified EXCEPT ![j] = fallback(out, clean_text[j])]
    /\ calls' = [calls EXCEPT ![j] =
                    Append(Settle(@, Returned(out)),
                           Call(Agents[3], fallback(out, clean_text[j])))]
    /\ pc' = [pc EXCEPT ![j] = "await3"]
    /\ UNCHANGED <<jobs, issued, resp, transcript, clean_text>>

\* Variant of set_completed: the record is replaced by one with an empty error.
set_completed_with_error(j) ==
    [jobs EXCEPT ![j] = [status |-> "completed", error |-> ""]]

\* Variant of set_completed: the record of a job that is done is removed.
set_completed_evict(j) == [k \in DOMAIN jobs \ {j} |-> jobs[k]]

\* Variant of set_completed: the write is lost.
set_completed_lost(j) == jobs

\* jobs[job_id]["status"] = "completed"
set_completed(j) == [jobs EXCEPT ![j] = [f \in DOMAIN @ \cup {"status"} |->
                        IF f = "status" THEN "completed" ELSE @[f]]]

\* The Summarizer call returns: the record is marked completed, the task ends.
summarizer_returns(j, out) ==
    /\ pc[j] = "await3"
    /\ calls' = [calls EXCEPT ![j] = Settle(@, Returned(out))]
    /\ jobs' = set_completed(j)
    /\ pc' = [pc EXCEPT ![j] = "done"]
    /\ UNCHANGED <<issued, resp, transcript, clean_text, clarified>>

\* Variant of set_failed: the failure is written to every record of the
\* store (one status object shared by all jobs).
set_failed_shared(j, e) ==
    [k \in DOMAIN jobs |-> [status |-> "failed", error |-> Str(e)]]

\* jobs[job_id]["status"] = "failed"; jobs[job_id]["error"] = str(e)
set_failed(j, e) == [jobs EXCEPT ![j] = [f \in DOMAIN @ \cup {"status", "error"} |->
                        IF f = "status" THEN "failed"
                        ELSE IF f = "error" THEN Str(e) ELSE @[f]]]

\* Position of the task after the pending call raised e: the handler of
\* `except Exception` ends the task; an error it does not catch leaves the
\* task with that error.
after_raise(e) == IF IsException(e) THEN "done" ELSE "crashed"

\* Variant of runner_raises: a call that raised is made once more before
\* the error is handled.
runner_raises_retry(j, e) ==
    /\ pc[j] \in {"await1", "await2", "await3"}
    /\ IF Len(calls[j]) = 1
          \/ calls[j][Len(calls[j]) - 1].agent # calls[j][Len(calls[j])].agent
       THEN /\ calls' = [calls EXCEPT ![j] =
                    Append(Settle(@, Raised(e)),
                           Call(@[Len(@)].agent, @[Len(@)].input))]
            /\ UNCHANGED <<jobs, pc>>
       ELSE /\ calls' = [calls EXCEPT ![j] = Settle(@, Raised(e))]
            /\ jobs' = IF IsException(e) THEN set_failed(j, e) ELSE jobs
            /\ pc' = [pc EXCEPT ![j] = after_raise(e)]
    /\ UNCHANGED <<issued, resp, transcript, clean_text, clarified>>

\* Variant of runner_raises: the error of stage 1 or 2 is swallowed and the
\* pipeline goes on to the next stage with no input.
runner_raises_continue(j, e) ==
    /\ pc[j] \in {"await1", "await2", "await3"}
    /\ IF pc[j] = "await3"
       THEN /\ calls' = [calls EXCEPT ![j] = Settle(@, Raised(e))]
            /\ jobs' = IF IsException(e) THEN set_failed(j, e) ELSE jobs
            /\ pc' = [pc EXCEPT ![j] = after_raise(e)]
       ELSE /\ calls' = [calls EXCEPT ![j] =
                    Append(Settle(@, Raised(e)), Call(Agents[Len(@) + 1], None))]
            /\ jobs' = jobs
            /\ pc' = [pc EXCEPT ![j] = IF pc[j] = "await1" THEN "await2" ELSE "await3"]
    /\ UNCHANGED <<issued, resp, transcript, clean_text, clarified>>

\* The pending Runner.run call of the task raises e.
runner_raises(j, e) ==
    /\ pc[j] \in {"await1", "await2", "await3"}
    /\ calls' = [calls EXCEPT ![j] = Settle(@, Raised(e))]
    /\ jobs' = IF IsException(e) THEN set_failed(j, e) ELSE jobs
    /\ pc' = [pc EXCEPT ![j] = after_raise(e)]
    /\ UNCHANGED <<issued, resp, transcript, clean_text, clarified>>

\* ------------------------------------------------------------ specification
Next ==
    \/ \E id \in JobIds, text \in Transcripts : summarize_job(id, text)
    \/ \E body \in MalformedBodies : summarize_rejected(body)
    \/ \E id \in JobIds : get_job(id)
    \/ \E j \in JobIds : run_start(j)
    \/ \E j \in JobIds, out \in TranscriberOutputs : transcriber_returns(j, out)
    \/ \E j \in JobIds, out \in ClarifierOutputs : clarifier_returns(j, out)
    \/ \E j \in JobIds, out \in SummarizerOutputs : summarizer_returns(j, out)
    \/ \E j \in JobIds, e \in Errors : runner_raises(j, e)

Spec == Init /\ [][Next]_vars

\* One step of the task of job j.
task_step(j) ==
    \/ run_start(j)
    \/ \E out \in TranscriberOutputs : transcriber_returns(j, out)
    \/ \E out \in ClarifierOutputs : clarifier_returns(j, out)
    \/ \E out \in SummarizerOutputs : summarizer_returns(j, out)
    \/ \E e \in Errors : runner_raises(j, e)

\* The event loop eventually runs every created task, and every Runner.run
\* call eventually returns or raises.
FairSpec == Spec /\ \A j \in JobIds : WF_vars(task_step(j))

\* ------------------------------------------------------- history helpers
\* The status of job j's record, "absent" when the store has no such key.
StatusOf(j) == IF j \in DOMAIN jobs THEN jobs[j].status ELSE "absent"

\* Some Runner.run call of job j raised.
SomeCallRaised(j) ==
    \E i \in 1..Len(calls[j]) : calls[j][i].outcome.kind = "raise"

\* All three Runner.run calls of job j were made and returned.
AllCallsReturned(j) ==
    /\ Len(calls[j]) = 3
    /\ \A i \in 1..3 : calls[j][i].outcome.kind = "ok"

\* The task of job j has ended (normally, or with an error it did not catch).
Finished(j) == pc[j] \in {"done", "crashed"}

TypeOK ==
    /\ DOMAIN jobs \subseteq JobIds
    /\ \A j \in DOMAIN jobs : jobs[j].status \in {"started", "completed", "failed"}
    /\ pc \in [JobIds -> {"none", "created", "await1", "await2", "await3", "done", "crashed"}]

\* ------------------------------------------------------------------ C1
\* C1: under fair scheduling, where every Runner.run call eventually returns
\* or raises, from some point on every submitted job none of whose calls
\* raised has status "completed" for good; and no step ever takes a record
\* out of "completed".
C1_CompletedEventuallyAndForGood ==
    /\ <>[](\A j \in JobIds :
              (j \in DOMAIN jobs /\ ~SomeCallRaised(j)) => StatusOf(j) = "completed")
    /\ [][\A j \in JobIds :
              StatusOf(j) = "completed" => StatusOf(j)' = "completed"]_vars

\* A job whose three calls all returned, with its record completed.
C1_Witness ==
    \E j \in JobIds : AllCallsReturned(j) /\ StatusOf(j) = "completed"

\* ------------------------------------------------------------------ C2
\* C2: every job one of whose Runner.run calls raised has, once its task has
\* ended, status "failed" and an `error` field whose text is not empty.
C2_FailedWithNonEmptyError ==
    \A j \in JobIds :
        (SomeCallRaised(j) /\ Finished(j)) =>
            /\ StatusOf(j) = "failed"
            /\ "error" \in DOMAIN jobs[j]
            /\ jobs[j].error # ""

\* ------------------------------------------------------------------ C3
\* C3: in the log of a job's Runner.run calls the i-th call is the call of
\* the i-th agent of the pipeline, at most three calls are made, and a call
\* that raised is the last one: no later stage is invoked after a failure.
C3_NoStageAfterFailure ==
    \A j \in JobIds :
        /\ Len(calls[j]) <= 3
        /\ \A i \in 1..Len(calls[j]) :
              /\ calls[j][i].agent = Agents[i]
              /\ calls[j][i].outcome.kind = "raise" => i = Len(calls[j])

\* A job whose Transcriber call raised and whose task has ended with that
\* single call in its log, next to a job whose Clarifier call raised.
C3_Witness ==
    \E j, k \in JobIds :
        /\ Finished(j) /\ Len(calls[j]) = 1 /\ calls[j][1].outcome.kind = "raise"
        /\ Finished(k) /\ Len(calls[k]) = 2 /\ calls[k][2].outcome.kind = "raise"

\* ------------------------------------------------------------------ C4
\* C4: a status query for an identifier that a submit response has returned
\* answers 200 with a record whose status is "started", "completed" or
\* "failed", and never 404.
C4_SubmittedIsRetrievable ==
    (resp.op = "get" /\ issued[resp.id] > 0) =>
        /\ resp.code = 200
        /\ resp.body.status \in {"started", "completed", "failed"}

\* A query answered for a submitted job whose task has not taken a step yet.
C4_Witness ==
    /\ resp.op = "get" /\ issued[resp.id] > 0
    /\ pc[resp.id] = "created"
    /\ resp.code = 200 /\ resp.body.status = "started"

\* ------------------------------------------------------------------ C5
\* C5: a status query for an identifier that is no key of the store answers
\* 404 "job not found", and the keys of the store are exactly the
\* identifiers that submit responses have returned: a query inserts nothing.
C5_UnknownIsNotFound ==
    /\ (resp.op = "get" /\ resp.id \notin DOMAIN jobs) =>
          /\ resp.code = 404
          /\ resp.body = [detail |-> "job not found"]
    /\ DOMAIN jobs = {j \in JobIds : issued[j] > 0}

\* A query for an unknown identifier answered while another job exists.
C5_Witness ==
    /\ resp.op = "get" /\ resp.id \notin DOMAIN jobs /\ resp.code = 404
    /\ DOMAIN jobs # {}

\* ------------------------------------------------------------------ C6
\* C6: a record enters the store with status "started", is never removed,
\* and every step that changes its status takes it from "started" to
\* "completed" or to "failed": nothing leaves a terminal status and nothing
\* re-enters "started".
C6_MonotoneTerminal ==
    [][\A j \in JobIds :
          /\ (j \notin DOMAIN jobs /\ j \in DOMAIN jobs') => StatusOf(j)' = "started"
          /\ j \in DOMAIN jobs =>
                /\ j \in DOMAIN jobs'
                /\ StatusOf(j)' # StatusOf(j) =>
                      /\ StatusOf(j) = "started"
                      /\ StatusOf(j)' \in {"completed", "failed"}]_vars

\* Both terminal statuses have been written, each by a task that has ended.
C6_Witness ==
    \E j, k \in JobIds :
        /\ Finished(j) /\ StatusOf(j) = "completed"
        /\ Finished(k) /\ StatusOf(k) = "failed"

\* ------------------------------------------------------------------ C7
\* The record that the outcomes of a job's own Runner.run calls determine.
OwnRecord(log) ==
    IF Len(log) = 3 /\ log[3].outcome.kind = "ok"
    THEN [status |-> "completed"]
    ELSE IF Len(log) > 0 /\ log[Len(log)].outcome.kind = "raise"
                        /\ log[Len(log)].outcome.cls = "Exception"
         THEN [status |-> "failed", error |-> Str(log[Len(log)].outcome)]
         ELSE [status |-> "started"]

\* C7: no identifier is returned by two submit responses, every job whose
\* task has ended is in a terminal status, and every record is the one its
\* own job's call outcomes determine.
C7_IndependentJobs ==
    /\ \A j \in JobIds : issued[j] <= 1
    /\ \A j \in DOMAIN jobs :
          /\ Finished(j) => jobs[j].status \in {"completed", "failed"}
          /\ jobs[j] = OwnRecord(calls[j])

\* ------------------------------------------------------------------ C8
\* C8 as stated: when the Clarifier returned an empty output the Summarizer's
\* input is the Transcriber's output and is not the empty string; otherwise
\* it is the Clarifier's output.
C8_FallbackNeverEmpty ==
    \A j \in JobIds :
        Len(calls[j]) = 3 =>
            IF Falsy(calls[j][2].outcome.out)
            THEN /\ calls[j][3].input = calls[j][1].outcome.out
                 /\ calls[j][3].input # ""
            ELSE calls[j][3].input = calls[j][2].outcome.out

\* C8 as amended: when the Clarifier returned an empty output the
\* Summarizer's input is exactly the Transcriber's output, which is not the
\* empty string unless the Transcriber's output is itself empty; otherwise it
\* is the Clarifier's output.
C8_FallbackToCleanText ==
    \A j \in JobIds :
        Len(calls[j]) = 3 =>
            IF Falsy(calls[j][2].outcome.out)
            THEN /\ calls[j][3].input = calls[j][1].outcome.out
                 /\ ~Falsy(calls[j][1].outcome.out) => calls[j][3].input # ""
            ELSE calls[j][3].input = calls[j][2].outcome.out

\* The Summarizer was called after a Clarifier that returned nothing, with
\* the clean text, and in another job after one that returned the empty
\* string following an empty clean text.
C8_Witness ==
    \E j, k \in JobIds :
        /\ Len(calls[j]) = 3 /\ calls[j][2].outcome.out = None
        /\ calls[j][3].input = "clean"
        /\ Len(calls[k]) = 3 /\ calls[k][2].outcome.out = ""
        /\ calls[k][1].outcome.out = "" /\ calls[k][3].input = ""

\* ------------------------------------------------------------------ C9
\* C9: the step that produces a submit response leaves the job's record in
\* the store as {"status": "started"} with its task created and no
\* Runner.run call made; and a submit is possible whenever an identifier is
\* left, whatever calls of other jobs are pending.
C9_SubmitDoesNotWait ==
    /\ [][\A id \in JobIds :
              issued'[id] > issued[id] =>
                  /\ resp' = [op |-> "summarize", code |-> 200,
                              body |-> [job_id |-> id, status |-> "queued"]]
                  /\ id \in DOMAIN jobs'
                  /\ jobs'[id] = [status |-> "started"]
                  /\ pc'[id] = "created"
                  /\ calls'[id] = <<>>]_vars
    /\ []((\E id \in JobIds : issued[id] = 0) =>
              ENABLED (\E id \in JobIds, text \in Transcripts : summarize_job(id, text)))

\* A submit has just been answered while a Runner.run call of another job
\* is still pending.
C9_Witness ==
    /\ resp.op = "summarize" /\ resp.code = 200
    /\ pc[resp.body.job_id] = "created" /\ calls[resp.body.job_id] = <<>>
    /\ \E k \in JobIds : pc[k] \in {"await1", "await2", "await3"}

\* ----------------------------------------------------------------- C10
\* C10: a record has the field `error` only when its status is "failed", it
\* has no field besides `status` and `error`, and a status query answered
\* before the job's task has ended returns exactly {"status": "started"}.
C10_ErrorOnlyWhenFailed ==
    /\ \A j \in DOMAIN jobs :
          /\ DOMAIN jobs[j] \subseteq {"status", "error"}
          /\ "error" \in DOMAIN jobs[j] => jobs[j].status = "failed"
    /\ (resp.op = "get" /\ resp.code = 200 /\ ~Finished(resp.id)) =>
          resp.body = [status |-> "started"]

\* A query answered {"status": "started"} while the job awaits a call, next
\* to a completed job and to a failed one that carries the error text.
C10_Witness ==
    /\ resp.op = "get" /\ resp.code = 200 /\ pc[resp.id] = "await2"
    /\ resp.body = [status |-> "started"]
    /\ \E j \in JobIds : StatusOf(j) = "completed" \/
          (StatusOf(j) = "failed" /\ jobs[j].error = "boom")

\* ----------------------------------------------------------------- C11
\* C11: a step that answers a submission with the client error 422 leaves
\* the job store, the issued identifiers and every task as they were; and
\* a step that adds a record to the store answers 200 to a submission.
C11_MalformedCreatesNothing ==
    [][/\ (resp' # resp /\ resp'.op = "summarize" /\ resp'.code = 422) =>
             /\ jobs' = jobs
             /\ issued' = issued
             /\ pc' = pc /\ calls' = calls
       /\ DOMAIN jobs' # DOMAIN jobs =>
             resp'.op = "summarize" /\ resp'.code = 200]_vars

\* A malformed submission has been refused while a job exists and an
\* identifier is still free.
C11_Witness ==
    /\ resp.op = "summarize" /\ resp.code = 422
    /\ DOMAIN jobs # {} /\ \E id \in JobIds : id \notin DOMAIN jobs

\* ----------------------------------------------------------------- C12
\* The latest call in the log of job j.
LastCall(j) == calls[j][Len(calls[j])]

\* C12: every job one of whose Runner.run calls raised, whatever the error,
\* has status "failed" and its `error` is exactly the text of that error.
C12_EveryErrorCaught ==
    \A j \in JobIds :
        SomeCallRaised(j) =>
            /\ StatusOf(j) = "failed"
            /\ jobs[j] = [status |-> "failed", error |-> Str(LastCall(j).outcome)]

\* ----------------------------------------------------------------- C13
\* C13: in the log of a job's Runner.run calls only the latest call can be
\* pending, every earlier call has returned, and the job awaits a call
\* exactly when its latest call is pending: stage i+1 is called only after
\* stage i returned, and never two calls of one job are in flight.
C13_StagesSequential ==
    \A j \in JobIds :
        /\ \A i \in 1..Len(calls[j]) :
              i < Len(calls[j]) => calls[j][i].outcome.kind = "ok"
        /\ Cardinality({i \in 1..Len(calls[j]) :
                          calls[j][i].outcome.kind = "pending"}) <= 1
        /\ pc[j] \in {"await1", "await2", "await3"} <=>
              (Len(calls[j]) > 0 /\ LastCall(j).outcome.kind = "pending")

\* Two jobs await calls of different stages at once, each with one pending
\* call only.
C13_Witness ==
    \E j, k \in JobIds :
        /\ pc[j] = "await3" /\ LastCall(j).agent = "Summarizer"
        /\ LastCall(j).outcome.kind = "pending"
        /\ pc[k] = "await2" /\ LastCall(k).agent = "Clarifier"
        /\ LastCall(k).outcome.kind = "pending"

\* ----------------------------------------------------------------- C14
\* C14: no agent is called twice for one job, once the task of a job has
\* ended neither its position nor its call log changes again, and a task
\* that has started is never created anew: the routine runs once and
\* nothing is retried.
C14_RunsOnceNoRetry ==
    /\ [](\A j \in JobIds : \A a \in {Agents[n] : n \in 1..3} :
             Cardinality({i \in 1..Len(calls[j]) : calls[j][i].agent = a}) <= 1)
    /\ [][\A j \in JobIds :
             /\ Finished(j) => (pc'[j] = pc[j] /\ calls'[j] = calls[j])
             /\ pc[j] \notin {"none", "created"} => pc'[j] # "created"]_vars

\* A job that failed in its Clarifier call and a job that completed, each
\* with every agent called at most once.
C14_Witness ==
    \E j, k \in JobIds :
        /\ pc[j] = "done" /\ StatusOf(j) = "failed" /\ Len(calls[j]) = 2
        /\ pc[k] = "done" /\ StatusOf(k) = "completed" /\ Len(calls[k]) = 3

\* ----------------------------------------------------------------- C15
\* C15: a step that changes the record of job j is a step of j's own task,
\* taken from a pending call, and it changes no other record and moves no
\* other task; and while some job is failed, status queries are still
\* served and so is a submit, as long as an identifier is left.
C15_OnlyOwnRecordWritten ==
    /\ [][\A j \in DOMAIN jobs :
             jobs'[j] # jobs[j] =>
                 /\ pc[j] \in {"await1", "await2", "await3"}
                 /\ pc'[j] \in {"done", "crashed"}
                 /\ \A k \in JobIds \ {j} :
                       /\ pc'[k] = pc[k] /\ calls'[k] = calls[k]
                       /\ k \in DOMAIN jobs => jobs'[k] = jobs[k]]_vars
    /\ []((\E j \in JobIds : StatusOf(j) = "failed") =>
             /\ \A id \in JobIds : ENABLED get_job(id)
             /\ (\E id \in JobIds : issued[id] = 0) =>
                   ENABLED (\E id \in JobIds, text \in Transcripts :
                               summarize_job(id, text)))

\* A job has failed with its error text while another job, untouched by
\* that, is completed and has just been queried.
C15_Witness ==
    \E j, k \in JobIds :
        /\ j # k
        /\ StatusOf(j) = "failed" /\ jobs[j].error = "boom"
        /\ StatusOf(k) = "completed"
        /\ resp.op = "get" /\ resp.id = k /\ resp.code = 200
        /\ resp.body = [status |-> "completed"]

\* ----------------------------------------------------------------- C16
\* C16: no step removes a key from the store, every identifier a submit
\* response returned is a key, and the latest status query for such an
\* identifier was not answered 404.
C16_NeverDeleted ==
    /\ [][\A j \in DOMAIN jobs : j \in DOMAIN jobs']_vars
    /\ [](\A j \in JobIds :
             issued[j] > 0 =>
                 /\ j \in DOMAIN jobs
                 /\ (resp.op = "get" /\ resp.id = j) => resp.code # 404)

\* Both jobs have ended, one completed and one failed, and the record of the
\* failed one has just been returned.
C16_Witness ==
    /\ \A j \in JobIds : Finished(j) /\ j \in DOMAIN jobs
    /\ resp.op = "get" /\ resp.code = 200 /\ resp.body.status = "failed"
    /\ \E k \in JobIds : StatusOf(k) = "completed"

\* ----------------------------------------------------------------- C17
\* The position of a task suspended in its n-th Runner.run call.
AwaitOf(n) == <<"await1", "await2", "await3">>[n]

\* Job j is suspended in a Runner.run call that has not returned.
CallPending(j) == Len(calls[j]) > 0 /\ LastCall(j).outcome.kind = "pending"

\* C17: as long as a call of job j has not returned, the record of j is
\* {"status": "started"}, its task is still suspended in that very call (no
\* later stage has been called, nothing has ended it), and meanwhile every
\* other task that is created or suspended can take its step and every
\* status query is served.
C17_NoTimeout ==
    \A j \in JobIds :
        CallPending(j) =>
            /\ j \in DOMAIN jobs /\ jobs[j] = [status |-> "started"]
            /\ pc[j] = AwaitOf(Len(calls[j]))
            /\ \A k \in JobIds \ {j} :
                  pc[k] \in {"created", "await1", "await2", "await3"} =>
                      ENABLED task_step(k)
            /\ \A id \in JobIds : ENABLED get_job(id)

\* A job is still suspended in its Transcriber call while a job submitted
\* beside it has run all three stages and completed.
C17_Witness ==
    \E j, k \in JobIds :
        /\ CallPending(j) /\ pc[j] = "await1" /\ StatusOf(j) = "started"
        /\ AllCallsReturned(k) /\ StatusOf(k) = "completed"

\* ----------------------------------------------------------------- C18
\* C18: a record has status "completed" only when the task of its job has
\* ended after exactly three calls, of the Transcriber, the Clarifier and
\* the Summarizer in this order, each made on what the stage before it
\* yielded, and all three returned without raising.
C18_CompletedOnlyAfterAllStages ==
    \A j \in JobIds :
        StatusOf(j) = "completed" =>
            /\ pc[j] = "done"
            /\ AllCallsReturned(j)
            /\ \A i \in 1..3 : calls[j][i].agent = Agents[i]
            /\ calls[j][1].input = transcript[j]
            /\ calls[j][2].input = calls[j][1].outcome.out
            /\ ~SomeCallRaised(j)

\* A completed job next to a job whose Summarizer call raised and which is
\* failed, not completed.
C18_Witness ==
    \E j, k \in JobIds :
        /\ StatusOf(j) = "completed" /\ AllCallsReturned(j)
        /\ Len(calls[k]) = 3 /\ calls[k][3].outcome.kind = "raise"
        /\ StatusOf(k) = "failed"

\* ----------------------------------------------------------------- C19
\* C19: every job whose task exists, in whatever position, is a key of the
\* store, and a step that writes "completed" or "failed" into the record
\* of a job finds that record in the store.
C19_RecordBeforeTask ==
    /\ [](\A j \in JobIds : pc[j] # "none" => j \in DOMAIN jobs)
    /\ [][\A j \in JobIds :
             (StatusOf(j)' # StatusOf(j)
                 /\ StatusOf(j)' \in {"completed", "failed"}) =>
                     j \in DOMAIN jobs]_vars

\* A task that has not taken its first step yet, with its record in the
\* store, next to a task whose failure handler has written its record.
C19_Witness ==
    \E j, k \in JobIds :
        /\ pc[j] = "created" /\ calls[j] = <<>> /\ StatusOf(j) = "started"
        /\ pc[k] = "done" /\ StatusOf(k) = "failed"
====
